---- MODULE Spec2Model ----
(***************************************************************************)
(* Model of app.py, the Streamlit route-comparison script.                 *)
(*                                                                         *)
(* Numbers.  Python floats are modelled by exact integers:                 *)
(*   - latitudes and longitudes are whole degrees;                         *)
(*   - distance_m is held in hundredths of a metre, so that the factor     *)
(*     1609.34 of the source is the integer 160934;                        *)
(*   - duration_s is held in whole seconds;                                *)
(*   - the buffered totals total1_t, total2_t are held in 1/6000 of a      *)
(*     minute, so that  minutes(s) * (1 + b/100)  is  s * (100 + b).       *)
(* The places used lie on a grid (multiples of 33 and 44 degrees) on which *)
(* every square root and every division below is exact.                    *)
(***************************************************************************)
EXTENDS Integers, Sequences, FiniteSets, TLC

VARIABLES
    ors_state,  \* st.session_state["ors_state"], or None
    run,        \* what the last run of the script did (its locals and outcome)
    view,       \* what the last run of the script put on the page
    geo,        \* one call of geocode_multi: its input, then its result
    dir         \* one call of ors_directions: its input, then its result

vars == <<ors_state, run, view, geo, dir>>

None == [none |-> TRUE]

(***************************************************************************)
(* Credential: load_api_key                                                *)
(***************************************************************************)
\* Each source holds "" (absent or empty) or a key.
load_api_key(secrets, env, props) ==
    IF secrets # "" THEN secrets
    ELSE IF env # "" THEN env
    ELSE props

\* <<streamlit secrets, environment, ors.properties>>
KeySources ==
    { <<"", "", "">>, <<"key", "", "">>, <<"", "key", "">>, <<"", "", "key">> }

(***************************************************************************)
(* Addresses and geocoding: geocode_multi                                  *)
(***************************************************************************)
\* An address is the sequence of its comma-separated pieces, each stripped.
Num(v) == [kind |-> "num", v |-> v]      \* text that float() reads as v
NaN == [kind |-> "nan"]                  \* the text "nan"
Word(w) == [kind |-> "word", w |-> w]    \* text that float() rejects
Blank == [kind |-> "blank"]              \* empty or whitespace only

Place(raw, lat, lon, label) ==
    [raw |-> raw, lat |-> lat, lon |-> lon, label |-> label]

coords(p) == <<p.lat, p.lon>>

\* float(s): does it parse, and to what
FloatParses(part) == part.kind \in {"num", "nan"}

LatMin == -90
LatMax == 90
LonMin == -180
LonMax == 180

\* Mutant: strict comparisons in the range test.
DirectCoordsStrict(address) ==
    IF Len(address) >= 2
       /\ FloatParses(address[1])
       /\ Len(address) = 2 /\ FloatParses(address[2])
       /\ address[1].kind = "num" /\ address[2].kind = "num"
       /\ LatMin < address[1].v /\ address[1].v < LatMax
       /\ LonMin < address[2].v /\ address[2].v < LonMax
    THEN Place(address, address[1].v, address[2].v, "latlon")
    ELSE None

\* The 'lat, lon' shortcut: the Place it returns, or None when the code
\* falls through to the providers (no comma, float() raising, out of range;
\* every comparison with nan is false).
DirectCoords(address) ==
    IF Len(address) >= 2                             \* "," in txt
       /\ FloatParses(address[1])                    \* float(lat_s)
       /\ Len(address) = 2 /\ FloatParses(address[2])  \* float(lon_s), split(",", 1)
       /\ address[1].kind = "num" /\ address[2].kind = "num"
       /\ LatMin <= address[1].v /\ address[1].v <= LatMax
       /\ LonMin <= address[2].v /\ address[2].v <= LonMax
    THEN Place(address, address[1].v, address[2].v, "latlon")
    ELSE None

Providers == <<"Nominatim", "Photon", "ArcGIS">>

\* What a provider does with the query: a hit, no result, or an exception.
Hit(lat, lon) == [kind |-> "hit", lat |-> lat, lon |-> lon]
Miss == [kind |-> "none"]
Raise == [kind |-> "raise"]

\* The three provider blocks, in order; prov[p] is provider p's outcome.
RECURSIVE TryProviders(_, _, _, _)
TryProviders(address, prov, i, calls) ==
    IF i > Len(Providers)
    THEN [place |-> None, calls |-> calls]
    ELSE LET p == Providers[i]
             res == prov[p]
         IN  IF res.kind = "hit"
             THEN [place |-> Place(address, res.lat, res.lon, p),
                   calls |-> Append(calls, p)]
             ELSE TryProviders(address, prov, i + 1, Append(calls, p))

\* The returned Place (or None) and the providers invoked, in order.
\* country_hint only changes the query text handed to Nominatim; what each
\* provider answers is the environment's choice, prov.
geocode_multi(address, prov) ==
    IF DirectCoords(address) # None
    THEN [place |-> DirectCoords(address), calls |-> <<>>]
    ELSE TryProviders(address, prov, 1, <<>>)

(***************************************************************************)
(* Directions: ors_directions                                              *)
(***************************************************************************)
\* JSON as the code reads it.  An object is a record holding the keys that
\* are present; a list is a sequence; every other value carries a tag t.
JNum(v) == [t |-> "num", v |-> v]
JNull == [t |-> "null"]
JStr == [t |-> "str"]
JList == [t |-> "list"]
\* an encoded-polyline string: what polyline.decode gives at precision 5 and
\* at precision 6, or ok = FALSE when it raises (or cannot be imported)
JPoly(ok, pts5, pts6) == [t |-> "str", ok |-> ok, pts5 |-> pts5, pts6 |-> pts6]
EmptyDict == <<>>

Has(d, k) == k \in DOMAIN d
IsDict(x) == ~Has(x, "t")

\* d.get(k) or {}  for a key whose value, when present, is an object or null
GetDict(d, k) == IF Has(d, k) /\ d[k] # JNull THEN d[k] ELSE EmptyDict
\* d.get(k) or []  for a list-valued key
GetList(d, k) == IF Has(d, k) THEN d[k] ELSE <<>>

\* float(summary.get(k, 0.0))
FloatRaises(summary, k) == Has(summary, k) /\ summary[k].t # "num"
FloatOf(summary, k) == IF Has(summary, k) THEN summary[k].v ELSE 0

\* [[c[1], c[0]] for c in coords]
SwapRaises(cs) == \E i \in 1..Len(cs) : Len(cs[i]) < 2
Swap(cs) == [i \in 1..Len(cs) |-> <<cs[i][2], cs[i][1]>>]

Err(msg) == [error |-> msg, source |-> "fallback"]

Routed(distance_m, duration_s, geometry) ==
    [distance_m |-> distance_m, duration_s |-> duration_s,
     geometry |-> geometry, source |-> "ors"]

\* (A) GeoJSON FeatureCollection
ParseFeatureCollection(data) ==
    LET feats == GetList(data, "features") IN
    IF Len(feats) = 0 THEN Err(<<"GeoJSON has no features">>)
    ELSE LET feat == feats[1] IN
         IF ~IsDict(feat) THEN Err(<<"exception">>)
         ELSE LET geom == GetDict(feat, "geometry")
                  cs == GetList(geom, "coordinates")
                  props == GetDict(feat, "properties")
                  summary == GetDict(props, "summary")
              IN  IF \/ FloatRaises(summary, "distance")
                     \/ FloatRaises(summary, "duration")
                     \/ SwapRaises(cs)
                  THEN Err(<<"exception">>)
                  ELSE Routed(FloatOf(summary, "distance"),
                              FloatOf(summary, "duration"), Swap(cs))

\* (B) classic schema {"routes": [{"summary": ..., "geometry": dict | str}]}
ParseRoutes(data) ==
    LET routes == GetList(data, "routes")
        route == IF Len(routes) = 0 THEN EmptyDict ELSE routes[1]
    IN
    IF ~IsDict(route) THEN Err(<<"exception">>)
    ELSE LET summary == GetDict(route, "summary")
             geom == IF Has(route, "geometry") THEN route.geometry ELSE JNull
             sumRaises == \/ FloatRaises(summary, "distance")
                          \/ FloatRaises(summary, "duration")
         IN
         IF IsDict(geom)
         THEN LET cs == GetList(geom, "coordinates") IN
              IF SwapRaises(cs) \/ sumRaises THEN Err(<<"exception">>)
              ELSE Routed(FloatOf(summary, "distance"),
                          FloatOf(summary, "duration"), Swap(cs))
         ELSE IF geom.t = "str"
         THEN IF ~geom.ok
              THEN Err(<<"Encoded geometry but could not decode">>)
              ELSE LET pts == IF Len(geom.pts5) < 2 THEN geom.pts6 ELSE geom.pts5 IN
                   IF sumRaises THEN Err(<<"exception">>)
                   ELSE Routed(FloatOf(summary, "distance"),
                               FloatOf(summary, "duration"), pts)
         ELSE Err(<<"Unknown geometry type">>)

StatusOK == 200

\* net is what requests.post does: [kind |-> "exception"], or a response
\* [kind |-> "resp", status, json, data] (json: whether resp.json() parses).
ors_directions(coords_latlon, api_key, profile, net) ==
    IF api_key = "" THEN Err(<<"Missing API key">>)
    ELSE IF net.kind = "exception" THEN Err(<<"exception">>)
    ELSE IF net.status # StatusOK THEN Err(<<"ORS HTTP", net.status>>)
    ELSE IF ~net.json THEN Err(<<"Non-JSON response">>)
    ELSE IF IsDict(net.data) /\ Has(net.data, "type")
            /\ net.data.type = "FeatureCollection"
    THEN ParseFeatureCollection(net.data)
    ELSE IF IsDict(net.data) /\ Has(net.data, "routes")
    THEN ParseRoutes(net.data)
    ELSE Err(<<"Unknown ORS response shape">>)

\* Responses of the provider.
NetException == [kind |-> "exception"]
HttpError(status) == [kind |-> "resp", status |-> status, json |-> FALSE, data |-> JList]
NonJson == [kind |-> "resp", status |-> StatusOK, json |-> FALSE, data |-> JList]
Json(data) == [kind |-> "resp", status |-> StatusOK, json |-> TRUE, data |-> data]

Summary(distance, duration) == [distance |-> JNum(distance), duration |-> JNum(duration)]
Feature(cs, summary) ==
    [geometry |-> [type |-> "LineString", coordinates |-> cs],
     properties |-> [summary |-> summary]]
FeatureCollection(feats) == [type |-> "FeatureCollection", features |-> feats]

(***************************************************************************)
(* The straight-line estimator and the schema guard of the submit handler  *)
(***************************************************************************)
MilesPerDegree == 69
SpeedMph == 22
MetresPerMile == 160934     \* 1609.34 m, in hundredths of a metre

Abs(x) == IF x < 0 THEN -x ELSE x

\* (((p.lat - q.lat) ** 2 + (p.lon - q.lon) ** 2) ** 0.5) * 69.0
approx_miles(p, q) ==
    LET dlat == p.lat - q.lat
        dlon == p.lon - q.lon
        root == CHOOSE r \in 0..(Abs(dlat) + Abs(dlon)) : r * r = dlat * dlat + dlon * dlon
    IN  root * MilesPerDegree

\* buffer_pct is the slider value the closure reads.
straight_fallback(seq, buffer_pct) ==
    LET d == approx_miles(seq[1], seq[2]) + approx_miles(seq[2], seq[3])
        \* t_min = (d / 22.0) * 60.0 * (1 + buffer_pct / 100.0), in 1/100 min
        t_min == ((d * 60) \div SpeedMph) * (100 + buffer_pct)
    IN  [distance_m |-> d * MetresPerMile,
         duration_s |-> (t_min * 60) \div 100,
         geometry |-> <<coords(seq[1]), coords(seq[2]), coords(seq[3])>>,
         source |-> "fallback"]

SchemaKeys == {"distance_m", "duration_s", "geometry"}

\* Mutant: the guard returns the route as it came.
ensure_schema_passthrough(route, seq, buffer_pct) == route

ensure_schema(route, seq, buffer_pct) ==
    IF route = None \/ DOMAIN route = {} THEN straight_fallback(seq, buffer_pct)
    ELSE IF ~(SchemaKeys \subseteq DOMAIN route) THEN straight_fallback(seq, buffer_pct)
    ELSE route

has_schema_ok(r) ==
    /\ r # None /\ DOMAIN r # {}
    /\ SchemaKeys \subseteq DOMAIN r
    /\ Has(r, "source") /\ r.source = "ors"

(***************************************************************************)
(* Rendering from the session state                                        *)
(***************************************************************************)
\* r.get(k, 0.0)
GetNum(r, k) == IF Has(r, k) THEN r[k] ELSE 0

\* minutes(r.get("duration_s", 0.0)) * (1 + buffer_pct/100.0), in 1/6000 min
total_t(r, buffer_pct) == GetNum(r, "duration_s") * (100 + buffer_pct)

NoError == [kind |-> "none", names |-> <<>>]

\* What the "Render from session state" block shows for a stored state.
render_summary(state) ==
    IF state = None THEN None
    ELSE LET total1_t == total_t(state.r1, state.buffer_pct)
             total2_t == total_t(state.r2, state.buffer_pct)
         IN  [total1_t |-> total1_t, total2_t |-> total2_t,
              shorter |-> IF total1_t <= total2_t THEN "A->B" ELSE "B->A"]

(***************************************************************************)
(* The script: one run per form submission or rerun                        *)
(*                                                                         *)
(* st.cache_data on geocode_multi and ors_directions only replays an       *)
(* earlier return value for the same arguments, so every run with the      *)
(* caches is a run without them; the caches are left out.                  *)
(***************************************************************************)
MaxBufferStep == 1

\* Inputs of the form and the environment they meet.
StartInputs == { <<Blank>>, <<Num(0), Num(0)>>, <<Word("1 Main St"), Word("Minneapolis")>> }
AInputs == { <<Blank>>, <<Num(33), Num(0)>>, <<Word("cafe")>> }
BInputs == { <<Blank>>, <<Num(0), Num(44)>>, <<Word("bank")>> }
BufferPcts == { 20 * k : k \in 0..MaxBufferStep }
Profiles == {"driving-car", "foot-walking"}

\* What the providers may do with an address of the form: nobody knows the
\* cafe or the bank; Photon may know the street address.
AppProvs(address) ==
    { [Nominatim |-> Raise, Photon |-> Miss, ArcGIS |-> Miss] }
    \cup IF address = <<Word("1 Main St"), Word("Minneapolis")>>
         THEN { [Nominatim |-> Raise, Photon |-> Hit(33, 44), ArcGIS |-> Miss] }
         ELSE {}

AppNets ==
    { NetException,
      HttpError(500),
      Json(FeatureCollection(<< Feature(<< <<0, 0>>, <<0, 33>> >>, Summary(700000000, 1200000)) >>)) }

Keys == { load_api_key(s[1], s[2], s[3]) : s \in KeySources }

\* not val.strip()
IsBlank(val) == Len(val) = 1 /\ val[1].kind = "blank"

\* [name for name, val in [...] if not val.strip()]
MissingNames(start, a, b) ==
    (IF IsBlank(start) THEN <<"Start">> ELSE <<>>)
    \o (IF IsBlank(a) THEN <<"Address A">> ELSE <<>>)
    \o (IF IsBlank(b) THEN <<"Address B">> ELSE <<>>)

\* not p_start or not p_a or not p_b
GeocodeFailed(p_start, p_a, p_b) == p_start = None \/ p_a = None \/ p_b = None

\* Mutant: the error message forgets B.
BadNamesNoB(p_start, p_a, p_b) ==
    (IF p_start = None THEN <<"Start">> ELSE <<>>)
    \o (IF p_a = None THEN <<"A">> ELSE <<>>)

\* bad = []; if not p_start: bad.append("Start") ...
BadNames(p_start, p_a, p_b) ==
    (IF p_start = None THEN <<"Start">> ELSE <<>>)
    \o (IF p_a = None THEN <<"A">> ELSE <<>>)
    \o (IF p_b = None THEN <<"B">> ELSE <<>>)

\* Mutant: Force ORS stops only when both routes are unusable.
ForceStopsBoth(force_ors, raw1, raw2) ==
    force_ors /\ (~has_schema_ok(raw1) /\ ~has_schema_ok(raw2))

\* if force_ors: if not has_schema_ok(r1) or not has_schema_ok(r2): ... st.stop()
ForceStops(force_ors, raw1, raw2) ==
    force_ors /\ (~has_schema_ok(raw1) \/ ~has_schema_ok(raw2))

\* st.stop(): the run ends here, nothing below it is rendered.
Stopped(log, error) ==
    /\ run' = log
    /\ view' = [error |-> error, summary |-> None]
    /\ UNCHANGED ors_state

\* The run goes on to "Render from session state" with ors_state untouched.
Rendered(log, error) ==
    /\ run' = log
    /\ view' = [error |-> error, summary |-> render_summary(ors_state)]
    /\ UNCHANGED ors_state

\* The body of  if submitted:  once the three fields are geocoded.
Route(API_KEY, p_start, p_a, p_b, buffer_pct, profile, force_ors, net1, net2) ==
    LET seq1 == <<p_start, p_a, p_b>>
        seq2 == <<p_start, p_b, p_a>>
        raw1 == ors_directions(<<coords(p_start), coords(p_a), coords(p_b)>>, API_KEY, profile, net1)
        raw2 == ors_directions(<<coords(p_start), coords(p_b), coords(p_a)>>, API_KEY, profile, net2)
        log == [outcome |-> "stored", submitted |-> TRUE, api_key |-> API_KEY,
                force_ors |-> force_ors,
                p_start |-> p_start, p_a |-> p_a, p_b |-> p_b,
                buffer_pct |-> buffer_pct, profile |-> profile,
                net1 |-> net1, net2 |-> net2,
                raw1 |-> raw1, raw2 |-> raw2, directions_calls |-> 2]
    IN
    IF ForceStops(force_ors, raw1, raw2)
    THEN Stopped([outcome |-> "force_stop", submitted |-> TRUE, api_key |-> API_KEY,
                  force_ors |-> force_ors,
                  p_start |-> p_start, p_a |-> p_a, p_b |-> p_b,
                  net1 |-> net1, net2 |-> net2,
                  raw1 |-> raw1, raw2 |-> raw2, directions_calls |-> 2],
                 [kind |-> "ORS did not return usable routes", names |-> <<>>])
    ELSE LET r1 == ensure_schema(raw1, seq1, buffer_pct)
             r2 == ensure_schema(raw2, seq2, buffer_pct)
             state == [p_start |-> p_start, p_a |-> p_a, p_b |-> p_b,
                       buffer_pct |-> buffer_pct, profile |-> profile,
                       r1 |-> r1, r2 |-> r2]
         IN  /\ ors_state' = state
             /\ run' = log
             /\ view' = [error |-> NoError, summary |-> render_summary(state)]

NoKeyError == [kind |-> "No ORS API key found", names |-> <<>>]

\* A run of the script with the form submitted ("Route & Draw").
Submit ==
    /\ UNCHANGED <<geo, dir>>
    /\ \E API_KEY \in Keys, start \in StartInputs, a \in AInputs, b \in BInputs :
         IF API_KEY = ""
         THEN Stopped([outcome |-> "no_key", submitted |-> TRUE, api_key |-> API_KEY,
                       resolvable |-> /\ DirectCoords(start) # None
                                      /\ DirectCoords(a) # None
                                      /\ DirectCoords(b) # None,
                       directions_calls |-> 0],
                      NoKeyError)
         ELSE IF MissingNames(start, a, b) # <<>>
         THEN Rendered([outcome |-> "missing", submitted |-> TRUE, api_key |-> API_KEY,
                        missing |-> MissingNames(start, a, b), directions_calls |-> 0],
                       [kind |-> "Please fill", names |-> MissingNames(start, a, b)])
         ELSE \E g1 \in AppProvs(start), g2 \in AppProvs(a), g3 \in AppProvs(b) :
           LET p_start == geocode_multi(start, g1).place
               p_a == geocode_multi(a, g2).place
               p_b == geocode_multi(b, g3).place
           IN
           IF GeocodeFailed(p_start, p_a, p_b)
           THEN Rendered([outcome |-> "geocode_failed", submitted |-> TRUE,
                          api_key |-> API_KEY,
                          p_start |-> p_start, p_a |-> p_a, p_b |-> p_b,
                          directions_calls |-> 0],
                         [kind |-> "Could not geocode",
                          names |-> BadNames(p_start, p_a, p_b)])
           ELSE \E buffer_pct \in BufferPcts, profile \in Profiles,
                   force_ors \in BOOLEAN, net1 \in AppNets, net2 \in AppNets :
                  Route(API_KEY, p_start, p_a, p_b, buffer_pct, profile,
                        force_ors, net1, net2)

\* A run of the script without a submission (page load, rerun).
Rerun ==
    /\ UNCHANGED <<geo, dir>>
    /\ \E API_KEY \in Keys :
         IF API_KEY = ""
         THEN Stopped([outcome |-> "no_key", submitted |-> FALSE, api_key |-> API_KEY,
                       directions_calls |-> 0],
                      NoKeyError)
         ELSE Rendered([outcome |-> "idle", submitted |-> FALSE, api_key |-> API_KEY,
                        directions_calls |-> 0],
                       NoError)

GeoIdle == [done |-> TRUE]
DirIdle == [done |-> TRUE]

Init ==
    /\ ors_state = None
    /\ run = [outcome |-> "init", submitted |-> FALSE, directions_calls |-> 0]
    /\ view = [error |-> NoError, summary |-> None]
    /\ geo = GeoIdle
    /\ dir = DirIdle

Next == Submit \/ Rerun

Spec == Init /\ [][Next]_vars

(***************************************************************************)
(* geocode_multi on its own: Init draws an address and what each provider  *)
(* does; Geocode applies the function.                                     *)
(***************************************************************************)
MaxPieces == 2

GeoNums == {-181, -90, 0, 91, 180}
GeoParts == { Num(v) : v \in GeoNums } \cup { NaN, Word("x"), Blank }
GeoAddresses == UNION { [1..n -> GeoParts] : n \in 1..MaxPieces }
GeoOutcomes == { Hit(10, 20), Hit(-30, 40), Miss, Raise }
GeoProvs == [ {"Nominatim", "Photon", "ArcGIS"} -> GeoOutcomes ]

InitGeo ==
    /\ ors_state = None
    /\ run = [outcome |-> "init", submitted |-> FALSE, directions_calls |-> 0]
    /\ view = [error |-> NoError, summary |-> None]
    /\ dir = DirIdle
    /\ geo \in { [done |-> FALSE, address |-> a, prov |-> g, place |-> None, calls |-> <<>>] :
                 a \in GeoAddresses, g \in GeoProvs }

Geocode ==
    /\ ~geo.done
    /\ geo' = [geo EXCEPT !.done = TRUE,
                          !.place = geocode_multi(geo.address, geo.prov).place,
                          !.calls = geocode_multi(geo.address, geo.prov).calls]
    /\ UNCHANGED <<ors_state, run, view, dir>>

SpecGeo == InitGeo /\ [][Geocode]_vars

(***************************************************************************)
(* ors_directions on its own: Init draws the arguments and what the        *)
(* provider answers; Directions applies the function.                      *)
(***************************************************************************)
Absent == [t |-> "absent"]

\* a JSON object holding the keys of ks whose value is not Absent
Obj(ks, val) == [k \in { x \in ks : val[x] # Absent } |-> val[k]]

DirValues == { Absent, JNull, JStr, JNum(-5), JNum(0), JNum(1200) }
DirSummaries ==
    { Obj({"distance", "duration"}, [distance |-> d, duration |-> t]) :
        d \in DirValues, t \in DirValues }
DirCoordLists == { <<>>, << <<0, 0>>, <<0, 33>> >>, << <<0, 0>>, <<7>> >> }
DirFeatures ==
    { JStr, [properties |-> JNull], [geometry |-> JNull, properties |-> [summary |-> JNull]] }
    \cup { Feature(cs, s) : cs \in DirCoordLists, s \in DirSummaries }
DirGeometries ==
    { Absent, JNull, JNum(7),
      JPoly(FALSE, <<>>, <<>>),
      JPoly(TRUE, << <<0, 0>>, <<33, 0>> >>, << <<0, 0>>, <<3, 0>> >>),
      JPoly(TRUE, << <<0, 0>> >>, << <<0, 0>>, <<3, 0>> >>) }
    \cup { [type |-> "LineString", coordinates |-> cs] : cs \in DirCoordLists }
DirRoutes ==
    { Obj({"summary", "geometry"}, [summary |-> s, geometry |-> g]) :
        s \in { Absent, Summary(-5, 1200), Summary(1200, 60), [distance |-> JStr] },
        g \in DirGeometries }

DirNets ==
    { NetException, HttpError(401), HttpError(500), NonJson, Json(JList),
      Json([message |-> JStr]),
      Json([type |-> "Feature"]),
      Json([type |-> "FeatureCollection"]),
      Json(FeatureCollection(<<>>)),
      Json([routes |-> <<>>]),
      Json([routes |-> <<JStr>>]) }
    \cup { Json(FeatureCollection(<<f>>)) : f \in DirFeatures }
    \cup { Json([type |-> "FeatureCollection", features |-> <<f>>, routes |-> <<>>]) :
             f \in { Feature(<<>>, Summary(1200, 60)) } }
    \cup { Json([routes |-> <<r>>]) : r \in DirRoutes }

DirCoords == { << <<0, 0>>, <<33, 0>>, <<0, 44>> >>, << <<0, 0>>, <<0, 44>>, <<33, 0>> >> }

InitDir ==
    /\ ors_state = None
    /\ run = [outcome |-> "init", submitted |-> FALSE, directions_calls |-> 0]
    /\ view = [error |-> NoError, summary |-> None]
    /\ geo = GeoIdle
    /\ dir \in { [done |-> FALSE, coords_latlon |-> c, api_key |-> k, profile |-> "driving-car",
                  net |-> n, out |-> None] :
                 c \in DirCoords, k \in Keys, n \in DirNets }

Directions ==
    /\ ~dir.done
    /\ dir' = [dir EXCEPT !.done = TRUE,
                          !.out = ors_directions(dir.coords_latlon, dir.api_key,
                                                 dir.profile, dir.net)]
    /\ UNCHANGED <<ors_state, run, view, geo>>

SpecDir == InitDir /\ [][Directions]_vars

(***************************************************************************)
(* Properties                                                              *)
(***************************************************************************)
RouteResultKeys == {"distance_m", "duration_s", "geometry", "source"}

\* C1: ors_directions never raises and always returns a well-formed
\* RouteResult: whatever the provider does, the returned value carries a
\* distance, a duration, a path geometry and a source tag.
C1_WellFormedResult ==
    (dir.done /\ Has(dir, "out")) => RouteResultKeys \subseteq DOMAIN dir.out

\* The directions result of a run is an error result.
Failed(raw) == Has(raw, "error")

\* a 200 response with a JSON body holding at least one feature
SuccessfulResponse(net) ==
    /\ net.kind = "resp" /\ net.status = 200 /\ net.json
    /\ IsDict(net.data) /\ Has(net.data, "features") /\ Len(net.data.features) > 0

RunSeq1 == <<run.p_start, run.p_a, run.p_b>>
RunSeq2 == <<run.p_start, run.p_b, run.p_a>>

C3_NoKeyIsForcedFallback ==
    (Has(run, "api_key") /\ run.api_key = "" /\ run.submitted /\ run.resolvable) =>
        /\ run.outcome = "stored"
        /\ ors_state.r1.source = "fallback"
        /\ ors_state.r2.source = "fallback"

\* (path_distance_miles / 22) * 60 * (1 + buffer_pct/100) minutes, in 1/6000
\* of a minute, the unit of total1_t and total2_t
SingleBufferEta(seq, buffer_pct) ==
    LET path_distance_miles == approx_miles(seq[1], seq[2]) + approx_miles(seq[2], seq[3])
    IN  ((path_distance_miles * 60) \div 22) * 60 * (100 + buffer_pct)

StateSeq1 == <<ors_state.p_start, ors_state.p_a, ors_state.p_b>>
StateSeq2 == <<ors_state.p_start, ors_state.p_b, ors_state.p_a>>

\* C4: for an estimated route the buffered ETA shown equals
\* (path_distance_miles / 22) * 60 * (1 + buffer_pct/100) minutes: the
\* buffer is applied once.
C4_BufferAppliedOnce ==
    view.summary # None =>
        /\ ors_state.r1.source = "fallback" =>
              view.summary.total1_t = SingleBufferEta(StateSeq1, ors_state.buffer_pct)
        /\ ors_state.r2.source = "fallback" =>
              view.summary.total2_t = SingleBufferEta(StateSeq2, ors_state.buffer_pct)

\* the ETA of a route with the buffer applied once, in 1/6000 of a minute
BufferedEta(r, seq, buffer_pct) ==
    IF r.source = "fallback" THEN SingleBufferEta(seq, buffer_pct)
    ELSE r.duration_s * (100 + buffer_pct)

\* C5: the same buffer is applied to the route of each visiting order and
\* the order reported as shorter is the one with the lower buffered ETA,
\* A-first on a tie, whatever mix of routed and estimated results.
C5_ShorterIsLowerBufferedEta ==
    view.summary # None =>
        (view.summary.shorter = "A->B"
            <=> BufferedEta(ors_state.r1, StateSeq1, ors_state.buffer_pct)
                  <= BufferedEta(ors_state.r2, StateSeq2, ors_state.buffer_pct))

\* C7: every RouteResult produced has distance >= 0 and duration >= 0, for
\* any response the provider may send.
C7_NonNegative ==
    (dir.done /\ Has(dir, "out") /\ Has(dir.out, "distance_m")) =>
        (dir.out.distance_m >= 0 /\ dir.out.duration_s >= 0)

\* C8: when one of Start, A, B cannot be geocoded, the run reports a
\* could-not-geocode error naming exactly the unresolved inputs, makes no
\* directions request and produces no route result.
C8_GeocodeFailureStep ==
    (Has(run', "p_start")
       /\ (run'.p_start = None \/ run'.p_a = None \/ run'.p_b = None)) =>
        /\ run'.outcome = "geocode_failed"
        /\ view'.error.kind = "Could not geocode"
        /\ view'.error.names =
              SelectSeq(<<"Start", "A", "B">>,
                        LAMBDA n : (CASE n = "Start" -> run'.p_start
                                      [] n = "A" -> run'.p_a
                                      [] OTHER -> run'.p_b) = None)
        /\ run'.directions_calls = 0
        /\ ors_state' = ors_state

C8_GeocodeFailureHalts == [][C8_GeocodeFailureStep]_vars

C8_Witness ==
    /\ run.outcome = "geocode_failed"
    /\ view.error.names = <<"A", "B">>
    /\ ors_state # None

\* the input reads as 'lat, lon' with both numbers in range
IsLatLonLiteral(address) ==
    /\ Len(address) = 2
    /\ address[1].kind = "num" /\ address[2].kind = "num"
    /\ -90 <= address[1].v /\ address[1].v <= 90
    /\ -180 <= address[2].v /\ address[2].v <= 180

Resolves(outcome) == outcome.kind = "hit"

\* C9: on a 'lat, lon' input in range geocode_multi returns a Place with
\* exactly those coordinates and invokes no provider; on every other input
\* it tries Nominatim, Photon, ArcGIS in that order, returns the first that
\* resolves (raising counts as not resolving) and fails only when all fail.
C9_GeocodeOrder ==
    (geo.done /\ Has(geo, "address")) =>
        IF IsLatLonLiteral(geo.address)
        THEN /\ geo.place # None
             /\ geo.place.lat = geo.address[1].v
             /\ geo.place.lon = geo.address[2].v
             /\ geo.calls = <<>>
        ELSE LET n == Len(geo.calls) IN
             /\ n \in 1..3
             /\ geo.calls = SubSeq(<<"Nominatim", "Photon", "ArcGIS">>, 1, n)
             /\ \A i \in 1..(n - 1) : ~Resolves(geo.prov[geo.calls[i]])
             /\ geo.place # None =>
                   /\ Resolves(geo.prov[geo.calls[n]])
                   /\ geo.place.lat = geo.prov[geo.calls[n]].lat
                   /\ geo.place.lon = geo.prov[geo.calls[n]].lon
                   /\ geo.place.label = geo.calls[n]
             /\ geo.place = None =>
                   (n = 3 /\ \A q \in DOMAIN geo.prov : ~Resolves(geo.prov[q]))

C9_Witness ==
    /\ geo.done /\ Has(geo, "address")
    /\ geo.address = <<Num(91), Num(0)>>
    /\ geo.prov["Nominatim"] = Raise /\ geo.prov["Photon"] = Miss
    /\ geo.calls = <<"Nominatim", "Photon", "ArcGIS">>
    /\ geo.place # None /\ geo.place.label = "ArcGIS"

\* C10: ors_state is written only by a submission whose three inputs are
\* non-blank and geocoded and, with Force ORS checked, whose two routes came
\* from the provider; every other run leaves it unchanged; what is stored
\* (places, buffer, profile, both routes) comes from that one submission.
C10_StoreStep ==
    /\ run'.outcome # "stored" => ors_state' = ors_state
    /\ run'.outcome = "stored" =>
          /\ run'.submitted
          /\ \A p \in {run'.p_start, run'.p_a, run'.p_b} : p # None /\ ~IsBlank(p.raw)
          /\ run'.force_ors =>
                /\ ~Failed(run'.raw1) /\ ~Failed(run'.raw2)
                /\ ors_state'.r1.source = "ors" /\ ors_state'.r2.source = "ors"
          /\ ors_state'.p_start = run'.p_start
          /\ ors_state'.p_a = run'.p_a
          /\ ors_state'.p_b = run'.p_b
          /\ ors_state'.buffer_pct = run'.buffer_pct
          /\ ors_state'.profile = run'.profile
          /\ ors_state'.r1 \in
                {run'.raw1, straight_fallback(<<run'.p_start, run'.p_a, run'.p_b>>, run'.buffer_pct)}
          /\ ors_state'.r2 \in
                {run'.raw2, straight_fallback(<<run'.p_start, run'.p_b, run'.p_a>>, run'.buffer_pct)}

C10_StoredByOneSubmission == [][C10_StoreStep]_vars

C10_Witness ==
    /\ run.outcome = "force_stop"
    /\ ors_state # None
    /\ ors_state.r1.source = "fallback"

====
